---- MODULE Spec2Model ----
(***************************************************************************)
(* Change Order Tracker (src/index.tsx): the App component's store of       *)
(* change orders, the table's selection, the edit form with its approver    *)
(* rows, and the handlers that mutate them.                                 *)
(*                                                                          *)
(* Free text (titles, names) is a sequence of one-character strings, so     *)
(* that trim() is computed.  Dates are ISO strings; "null" is the JSON      *)
(* null of Approval.approvalDate and "" the empty value of a date input.    *)
(* A nullable order (currentOrder) is a sequence of length 0 or 1.          *)
(***************************************************************************)
EXTENDS Integers, Sequences, FiniteSets, TLC

VARIABLES
    changeOrders,          \* App: ChangeOrder[]
    currentOrder,          \* App: ChangeOrder | null, as <<>> or <<order>>
    view,                  \* App: 'table' | 'form'
    isSettingsOpen,        \* App
    isDeleteConfirmOpen,   \* App
    isRenumberConfirmOpen, \* App
    isPasswordModalOpen,   \* App
    isAdminMode,           \* App
    selectedOrderIds,      \* App: Set<number>
    filters,               \* ChangeOrderTable: the filter bar's values
    settings,              \* App: AppSettings
    localStorage,          \* localStorage['appSettings'], as <<>> or <<JSON text>>
    localSettings,         \* SettingsModal: the settings being edited, <<>> while closed
    pendingReads,          \* FileReaders started by handleFileImport, not yet loaded
    formData,              \* ChangeOrderForm: ChangeOrder being edited
    internalApprovers,     \* ChangeOrderForm: InternalApproverControl[]
    thirdPartyApprovers,   \* ChangeOrderForm: Approval[]
    errors,                \* ChangeOrderForm: the fields that show an error message
    downloads,             \* the project file the last export wrote, as <<>> or <<file>>
    last                   \* history: the last handler that ran, with its inputs

vars == <<changeOrders, currentOrder, view, isSettingsOpen, isDeleteConfirmOpen,
          isRenumberConfirmOpen, isPasswordModalOpen, isAdminMode,
          selectedOrderIds, filters, settings, localStorage, localSettings, pendingReads, formData,
          internalApprovers, thirdPartyApprovers, errors, downloads, last>>

----------------------------------------------------------------------------
(* Bounds of the model *)

\* longest collection a create or an import may produce
MaxOrders == 3
\* largest id a create may assign
MaxId == 3
\* most third-party rows the form may hold
MaxThirdParty == 2
\* most file reads in flight at once
MaxPendingReads == 1
\* longest collection in which the edit scenarios start a new order
MaxEdited == 2
\* longest collection in which the status scenarios start a new order
MaxDerived == 1
\* most third-party rows added to an order in the round-trip scenarios
MaxAttached == 1

----------------------------------------------------------------------------
(* Types *)

ApprovalStatus == {"Pending", "Approved", "Rejected"}

ChangeOrderStatus ==
    {"Pending Approval", "Approved", "Rejected", "In Progress", "Completed"}

APPROVER_ROLES ==
    << "Manager of Gas Engineering", "Director of Gas Engineering",
       "Director of Gas Operations", "Sr. Vice President of Gas Operations" >>

RoleSet == {APPROVER_ROLES[i] : i \in 1..Len(APPROVER_ROLES)}

\* the day the page was loaded, new Date().toISOString().split('T')[0]
Today == "2024-02-15"

emptyFormState ==
    [ id |-> 0, title |-> <<>>, description |-> <<>>, reason |-> <<>>,
      status |-> "Pending Approval", dateRequested |-> Today,
      costImpactEquipment |-> 0, costImpactInstallation |-> 0,
      costImpactOther |-> 0, otherCostsExplanation |-> <<>>,
      scheduleImpactDays |-> 0, approvals |-> <<>> ]

\* useState<AppSettings>({projectName: '', ..., approverConfig: {}}):
\* approverConfig is a function whose domain is the roles that have a key
InitialSettings ==
    [ projectName |-> <<>>, projectLocation |-> <<>>, projectManager |-> <<>>,
      approverConfig |-> [r \in {} |-> <<>>] ]

----------------------------------------------------------------------------
(* Helpers: Array.prototype and String.prototype functions the code uses *)

Range(s) == {s[i] : i \in 1..Len(s)}

\* Array.prototype.filter with the predicate given as the set of indices kept
RECURSIVE FilterIdx(_, _)
FilterIdx(s, keep) ==
    IF s = <<>> THEN <<>>
    ELSE LET n == Len(s)
             front == FilterIdx(SubSeq(s, 1, n - 1), keep)
         IN IF n \in keep THEN Append(front, s[n]) ELSE front

\* String.prototype.trim
RECURSIVE TrimLeft(_)
TrimLeft(s) ==
    IF s # <<>> /\ Head(s) = " " THEN TrimLeft(Tail(s)) ELSE s

RECURSIVE TrimRight(_)
TrimRight(s) ==
    IF s # <<>> /\ s[Len(s)] = " " THEN TrimRight(SubSeq(s, 1, Len(s) - 1)) ELSE s

Trim(s) == TrimRight(TrimLeft(s))

\* Math.max(0, ...ids)
MaxOf(S) ==
    IF S = {} THEN 0
    ELSE LET x == CHOOSE y \in S : \A z \in S : z <= y
         IN IF x > 0 THEN x ELSE 0

\* [...orders].sort((a, b) => b.id - a.id): Array.prototype.sort is stable, so
\* entries with equal ids keep their relative order.  InsertByIdDesc puts x,
\* which followed every entry of s, behind every entry whose id is not smaller.
RECURSIVE InsertByIdDesc(_, _)
InsertByIdDesc(s, x) ==
    IF s = <<>> THEN <<x>>
    ELSE LET n == Len(s)
         IN IF s[n].id < x.id
            THEN Append(InsertByIdDesc(SubSeq(s, 1, n - 1), x), s[n])
            ELSE Append(s, x)

RECURSIVE SortByIdDesc(_)
SortByIdDesc(s) ==
    IF s = <<>> THEN <<>>
    ELSE InsertByIdDesc(SortByIdDesc(SubSeq(s, 1, Len(s) - 1)), s[Len(s)])

----------------------------------------------------------------------------
(* The store: the pure parts of handleSave, executeDelete, handleRenumber *)

Ids(orders) == {orders[i].id : i \in 1..Len(orders)}

\* a derivation that lets a sticky status win over a rejection
DeriveStatusStickyFirst(status, approvals) ==
    LET isRejected == \E i \in 1..Len(approvals) : approvals[i].status = "Rejected"
        isFullyApproved ==
            Len(approvals) > 0 /\ \A i \in 1..Len(approvals) : approvals[i].status = "Approved"
    IN IF status = "In Progress" \/ status = "Completed" THEN status
       ELSE IF isRejected THEN "Rejected"
       ELSE IF isFullyApproved THEN "Approved"
       ELSE "Pending Approval"

\* a derivation that takes one Approved approval for full approval
DeriveStatusAnyApproved(status, approvals) ==
    LET isRejected == \E i \in 1..Len(approvals) : approvals[i].status = "Rejected"
        isFullyApproved == \E i \in 1..Len(approvals) : approvals[i].status = "Approved"
    IN IF isRejected THEN "Rejected"
       ELSE IF isFullyApproved
            THEN (IF status # "In Progress" /\ status # "Completed" THEN "Approved" ELSE status)
            ELSE (IF status # "In Progress" /\ status # "Completed"
                  THEN "Pending Approval" ELSE status)

\* a derivation without the approvals.length > 0 test
DeriveStatusEmptyApproved(status, approvals) ==
    LET isRejected == \E i \in 1..Len(approvals) : approvals[i].status = "Rejected"
        isFullyApproved == \A i \in 1..Len(approvals) : approvals[i].status = "Approved"
    IN IF isRejected THEN "Rejected"
       ELSE IF isFullyApproved
            THEN (IF status # "In Progress" /\ status # "Completed" THEN "Approved" ELSE status)
            ELSE (IF status # "In Progress" /\ status # "Completed"
                  THEN "Pending Approval" ELSE status)

\* a derivation without the In Progress / Completed exception
DeriveStatusNoSticky(status, approvals) ==
    LET isRejected == \E i \in 1..Len(approvals) : approvals[i].status = "Rejected"
        isFullyApproved ==
            Len(approvals) > 0 /\ \A i \in 1..Len(approvals) : approvals[i].status = "Approved"
    IN IF isRejected THEN "Rejected"
       ELSE IF isFullyApproved THEN "Approved"
       ELSE "Pending Approval"

\* handleSave: the status committed for a form status and the final approvals
DeriveStatus(status, approvals) ==
    LET isRejected == \E i \in 1..Len(approvals) : approvals[i].status = "Rejected"
        isFullyApproved ==
            Len(approvals) > 0 /\ \A i \in 1..Len(approvals) : approvals[i].status = "Approved"
    IN IF isRejected THEN "Rejected"
       ELSE IF isFullyApproved
            THEN (IF status # "In Progress" /\ status # "Completed" THEN "Approved" ELSE status)
            ELSE (IF status # "In Progress" /\ status # "Completed"
                  THEN "Pending Approval" ELSE status)

\* handleSave: const orderToSave = { ...orderFromForm, status: newStatus }
OrderToSave(orderFromForm) ==
    [orderFromForm EXCEPT !.status = DeriveStatus(orderFromForm.status, orderFromForm.approvals)]

\* an id taken from the length of the collection
NewCoIdLength(orders) == Len(orders) + 1

\* handleSave: Math.max(0, ...changeOrders.map(co => co.id)) + 1
NewCoId(orders) == MaxOf(Ids(orders)) + 1

\* a create that puts the new order first and does not sort
CreateOrderPrepend(orders, orderToSave) ==
    <<[orderToSave EXCEPT !.id = NewCoId(orders)]>> \o orders

\* handleSave, new order: [...changeOrders, newOrder].sort((a,b) => b.id - a.id)
CreateOrder(orders, orderToSave) ==
    SortByIdDesc(Append(orders, [orderToSave EXCEPT !.id = NewCoId(orders)]))

\* handleSave, existing order: changeOrders.map(co => co.id === orderToSave.id ? orderToSave : co)
UpdateOrder(orders, orderToSave) ==
    [i \in 1..Len(orders) |->
        IF orders[i].id = orderToSave.id THEN orderToSave ELSE orders[i]]

\* a save with the branches exchanged
SaveOrdersInverted(orders, orderToSave) ==
    IF orderToSave.id # 0
    THEN CreateOrder(orders, orderToSave)
    ELSE UpdateOrder(orders, orderToSave)

\* handleSave: the branch on orderToSave.id === 0
SaveOrders(orders, orderToSave) ==
    IF orderToSave.id = 0
    THEN CreateOrder(orders, orderToSave)
    ELSE UpdateOrder(orders, orderToSave)

\* a delete that stops at the first selected entry
DeleteOrdersFirstOnly(orders, selected) ==
    LET hit == {i \in 1..Len(orders) : orders[i].id \in selected}
        first == IF hit = {} THEN {} ELSE {CHOOSE i \in hit : \A j \in hit : i <= j}
    IN FilterIdx(orders, (1..Len(orders)) \ first)

\* executeDelete: prevOrders.filter(co => !selectedOrderIds.has(co.id))
DeleteOrders(orders, selected) ==
    FilterIdx(orders, {i \in 1..Len(orders) : orders[i].id \notin selected})

\* the dates of the model; every other value of a date field, the empty value
\* of a cleared date input among them, makes new Date(d) an Invalid Date
ValidDates == {"2024-01-10", "2024-02-15", "2024-03-01"}

\* isNaN(new Date(d).getTime())
DateIsNaN(d) == d \notin ValidDates

\* new Date(dateRequested).getTime() of a valid date, in days from 2024-01-01
GetTime(d) ==
    CASE d = "2024-01-10" -> 9
      [] d = "2024-02-15" -> 45
      [] d = "2024-03-01" -> 60

\* handleRenumber's comparator as Array.prototype.sort reads it: a NaN result
\* is taken as +0
DateCompare(a, b) ==
    IF DateIsNaN(a.dateRequested) \/ DateIsNaN(b.dateRequested) THEN 0
    ELSE GetTime(a.dateRequested) - GetTime(b.dateRequested)

\* handleRenumber: [...changeOrders].sort(comparator) for a consistent
\* comparator: the sort is stable
RECURSIVE InsertByDateAsc(_, _)
InsertByDateAsc(s, x) ==
    IF s = <<>> THEN <<x>>
    ELSE LET n == Len(s)
         IN IF DateCompare(x, s[n]) < 0
            THEN Append(InsertByDateAsc(SubSeq(s, 1, n - 1), x), s[n])
            ELSE Append(s, x)

RECURSIVE SortByDateAsc(_)
SortByDateAsc(s) ==
    IF s = <<>> THEN <<>>
    ELSE InsertByDateAsc(SortByDateAsc(SubSeq(s, 1, Len(s) - 1)), s[Len(s)])

\* the comparator is a consistent comparator for the entries (ECMAScript,
\* Array.prototype.sort): comparing equal is transitive, and so is comparing
\* smaller
ConsistentComparator(orders) ==
    \A i, j, k \in 1..Len(orders) :
        /\ (DateCompare(orders[i], orders[j]) = 0 /\ DateCompare(orders[j], orders[k]) = 0)
               => DateCompare(orders[i], orders[k]) = 0
        /\ (DateCompare(orders[i], orders[j]) < 0 /\ DateCompare(orders[j], orders[k]) < 0)
               => DateCompare(orders[i], orders[k]) < 0

\* the orders of s in every arrangement
Arrangements(s) ==
    {[i \in 1..Len(s) |-> s[p[i]]] :
        p \in {q \in [1..Len(s) -> 1..Len(s)] :
                  \A i, j \in 1..Len(s) : i # j => q[i] # q[j]}}

\* handleRenumber: the arrays sort may return.  With a comparator that is not
\* consistent the order is implementation-defined.
SortOutcomes(orders) ==
    IF ConsistentComparator(orders) THEN {SortByDateAsc(orders)} ELSE Arrangements(orders)

\* handleRenumber: sortedOrders.map((order, index) => ({...order, id: index + 1}))
RenumberOrders(sortedOrders) ==
    [i \in 1..Len(sortedOrders) |-> [sortedOrders[i] EXCEPT !.id = i]]

----------------------------------------------------------------------------
(* The form: expanding an order's approvals into rows, and collapsing them *)

\* approverConfig[role], undefined read as the empty name
ConfigName(approverConfig, role) ==
    IF role \in DOMAIN approverConfig THEN approverConfig[role] ELSE <<>>

\* APPROVER_ROLES.filter(role => approverConfig[role]?.trim())
configuredInternalApprovers(approverConfig) ==
    FilterIdx(APPROVER_ROLES,
              {i \in 1..Len(APPROVER_ROLES) :
                  Trim(ConfigName(approverConfig, APPROVER_ROLES[i])) # <<>>})

\* x || '' on an approval date
OrEmpty(d) == IF d = "null" THEN "" ELSE d

\* x || null on an approval date
OrNull(d) == IF d = "" THEN "null" ELSE d

\* the form's effect: one control per configured role, from the first approval
\* of the order that carries the role's configured name
ExpandInternal(existingApprovals, approverConfig) ==
    LET roles == configuredInternalApprovers(approverConfig)
        Row(role) ==
            LET hits == {i \in 1..Len(existingApprovals) :
                            existingApprovals[i].name = approverConfig[role]}
            IN IF hits = {}
               THEN [role |-> role, included |-> FALSE, status |-> "Pending",
                     approvalDate |-> ""]
               ELSE LET existing == existingApprovals[CHOOSE i \in hits : \A j \in hits : i <= j]
                    IN [role |-> role, included |-> TRUE, status |-> existing.status,
                        approvalDate |-> OrEmpty(existing.approvalDate)]
    IN [k \in 1..Len(roles) |-> Row(roles[k])]

\* an expansion that shows the third-party approvals without their dates
ExpandThirdPartyUndated(existingApprovals, approverConfig) ==
    LET values == {approverConfig[r] : r \in DOMAIN approverConfig}
        kept == FilterIdx(existingApprovals,
                          {i \in 1..Len(existingApprovals) :
                              existingApprovals[i].name \notin values})
    IN [k \in 1..Len(kept) |-> [kept[k] EXCEPT !.approvalDate = ""]]

\* the form's effect: the approvals whose name is no value of approverConfig
ExpandThirdParty(existingApprovals, approverConfig) ==
    LET values == {approverConfig[r] : r \in DOMAIN approverConfig}
        kept == FilterIdx(existingApprovals,
                          {i \in 1..Len(existingApprovals) :
                              existingApprovals[i].name \notin values})
    IN [k \in 1..Len(kept) |-> [kept[k] EXCEPT !.approvalDate = OrEmpty(@)]]

\* a collapse that keeps the third-party rows without a name
FinalApprovalsWithUnnamed(internal, thirdParty, approverConfig) ==
    LET inc == FilterIdx(internal, {i \in 1..Len(internal) : internal[i].included})
    IN [k \in 1..Len(inc) |->
            [name |-> approverConfig[inc[k].role], status |-> inc[k].status,
             approvalDate |-> OrNull(inc[k].approvalDate)]]
       \o [k \in 1..Len(thirdParty) |-> [thirdParty[k] EXCEPT !.approvalDate = OrNull(@)]]

\* handleSubmit: finalApprovals
FinalApprovals(internal, thirdParty, approverConfig) ==
    LET inc == FilterIdx(internal, {i \in 1..Len(internal) : internal[i].included})
        named == FilterIdx(thirdParty, {i \in 1..Len(thirdParty) : thirdParty[i].name # <<>>})
    IN [k \in 1..Len(inc) |->
            [name |-> approverConfig[inc[k].role], status |-> inc[k].status,
             approvalDate |-> OrNull(inc[k].approvalDate)]]
       \o [k \in 1..Len(named) |-> [named[k] EXCEPT !.approvalDate = OrNull(@)]]

\* a check of the required text fields that does not trim them
RequiredFilledUntrimmed(form) ==
    /\ form.title # <<>>
    /\ form.description # <<>>
    /\ form.reason # <<>>

\* handleSubmit: the required text fields are filled
RequiredFilled(form) ==
    /\ Trim(form.title) # <<>>
    /\ Trim(form.description) # <<>>
    /\ Trim(form.reason) # <<>>

\* handleSubmit: newErrors for the required text fields
RequiredErrors(form) ==
    {name \in {"title", "description", "reason"} : Trim(form[name]) = <<>>}

----------------------------------------------------------------------------
(* The table: the filtered view *)

defaultFilters ==
    [ id |-> <<>>, title |-> <<>>, status |-> "All", dateRequested |-> "",
      costMin |-> <<>>, costMax |-> <<>>, scheduleMin |-> <<>>, scheduleMax |-> <<>> ]

Digits == <<"0", "1", "2", "3", "4", "5", "6", "7", "8", "9">>

\* Number.prototype.toString of an integer
RECURSIVE NatString(_)
NatString(n) ==
    IF n < 10 THEN <<Digits[n + 1]>>
    ELSE Append(NatString(n \div 10), Digits[(n % 10) + 1])

IdString(n) == IF n < 0 THEN <<"-">> \o NatString(0 - n) ELSE NatString(n)

\* String.prototype.includes
Includes(s, t) ==
    \E i \in 1..(Len(s) + 1) :
        /\ i + Len(t) - 1 <= Len(s)
        /\ SubSeq(s, i, i + Len(t) - 1) = t

\* String.prototype.toLowerCase, on the letters the model types
LowerChar(c) ==
    CASE c = "A" -> "a"
      [] c = "B" -> "b"
      [] c = "T" -> "t"
      [] OTHER -> c

ToLowerCase(s) == [i \in 1..Len(s) |-> LowerChar(s[i])]

\* parseFloat and parseInt(_, 10) of the value of a number input: digits, or
\* digits with an exponent ("1e1").  <<>> is NaN, <<n>> the number n.
DigitValue(c) == CHOOSE d \in 0..9 : Digits[d + 1] = c

IsDigit(c) == \E d \in 1..10 : Digits[d] = c

\* the digits a string starts with
RECURSIVE LeadingDigits(_)
LeadingDigits(s) ==
    IF s # <<>> /\ IsDigit(Head(s)) THEN <<Head(s)>> \o LeadingDigits(Tail(s)) ELSE <<>>

RECURSIVE Pow10(_)
Pow10(n) == IF n = 0 THEN 1 ELSE 10 * Pow10(n - 1)

RECURSIVE ParseDigits(_)
ParseDigits(s) ==
    IF s = <<>> THEN 0
    ELSE 10 * ParseDigits(SubSeq(s, 1, Len(s) - 1)) + DigitValue(s[Len(s)])

\* parseInt(s, 10): the leading digits, nothing after them is read
ParseInt(s) ==
    LET digits == LeadingDigits(s)
    IN IF digits = <<>> THEN <<>> ELSE <<ParseDigits(digits)>>

\* parseFloat(s): an optional sign, the leading digits and, when one follows,
\* the exponent
ParseFloat(s) ==
    LET sign == IF s # <<>> /\ Head(s) = "-" THEN -1 ELSE 1
        unsigned == IF sign = -1 THEN Tail(s) ELSE s
        digits == LeadingDigits(unsigned)
        rest == SubSeq(unsigned, Len(digits) + 1, Len(unsigned))
        exponent == IF rest # <<>> /\ Head(rest) = "e" THEN LeadingDigits(Tail(rest)) ELSE <<>>
    IN IF digits = <<>> THEN <<>>
       ELSE IF exponent = <<>> THEN <<sign * ParseDigits(digits)>>
       ELSE <<sign * ParseDigits(digits) * Pow10(ParseDigits(exponent))>>

\* handleChange: processedValue of a number input, parseFloat(value) || 0
ProcessedValue(value) ==
    IF ParseFloat(value) = <<>> THEN 0 ELSE ParseFloat(value)[1]

TotalCost(co) == co.costImpactEquipment + co.costImpactInstallation + co.costImpactOther

\* the predicate of filteredChangeOrders
FilterMatch(co, f) ==
    LET costMin == ParseFloat(f.costMin)
        costMax == ParseFloat(f.costMax)
        scheduleMin == ParseInt(f.scheduleMin)
        scheduleMax == ParseInt(f.scheduleMax)
    IN /\ (f.id # <<>> => Includes(IdString(co.id), f.id))
       /\ (f.title # <<>> => Includes(ToLowerCase(co.title), ToLowerCase(f.title)))
       /\ (f.status # "All" => co.status = f.status)
       /\ (f.dateRequested # "" =>
              /\ ~DateIsNaN(co.dateRequested)
              /\ GetTime(co.dateRequested) >= GetTime(f.dateRequested))
       /\ (costMin # <<>> => TotalCost(co) >= costMin[1])
       /\ (costMax # <<>> => TotalCost(co) <= costMax[1])
       /\ (scheduleMin # <<>> => co.scheduleImpactDays >= scheduleMin[1])
       /\ (scheduleMax # <<>> => co.scheduleImpactDays <= scheduleMax[1])

filteredChangeOrders(orders, f) ==
    FilterIdx(orders, {i \in 1..Len(orders) : FilterMatch(orders[i], f)})

\* totalCostImpact: filteredChangeOrders.reduce((total, order) => total + the
\* three cost fields of order, 0)
ReduceTotalCost(orders) ==
    IF orders = <<>> THEN 0
    ELSE LET F[k \in 0..Len(orders)] ==
                 IF k = 0 THEN 0
                 ELSE F[k - 1] + orders[k].costImpactEquipment
                               + orders[k].costImpactInstallation + orders[k].costImpactOther
         IN F[Len(orders)]

----------------------------------------------------------------------------
(* Project files: JSON.stringify of handleExportProject and JSON.parse of
   reader.onload.  A JSON text is the tree of its values, each value tagged
   with its JSON type. *)

JsonNull == [type |-> "null"]

JsonString(s) == [type |-> "string", value |-> s]

JsonNumber(n) == [type |-> "number", value |-> n]

\* the fields of a ChangeOrder that hold numbers
NumberFields ==
    {"id", "costImpactEquipment", "costImpactInstallation", "costImpactOther",
     "scheduleImpactDays"}

\* JSON.stringify of an Approval: approvalDate is a string or null
StringifyApproval(a) ==
    [ name |-> JsonString(a.name), status |-> JsonString(a.status),
      approvalDate |-> IF a.approvalDate = "null" THEN JsonNull ELSE JsonString(a.approvalDate) ]

StringifyOrder(o) ==
    [k \in DOMAIN o |->
        IF k = "approvals" THEN [i \in 1..Len(o[k]) |-> StringifyApproval(o[k][i])]
        ELSE IF k \in NumberFields THEN JsonNumber(o[k])
        ELSE JsonString(o[k])]

StringifySettings(st) ==
    [k \in DOMAIN st |->
        IF k = "approverConfig" THEN [r \in DOMAIN st[k] |-> JsonString(st[k][r])]
        ELSE JsonString(st[k])]

\* handleExportProject: JSON.stringify(projectData, null, 2)
Stringify(projectData) ==
    [ settings |-> StringifySettings(projectData.settings),
      changeOrders |-> [i \in 1..Len(projectData.changeOrders) |->
                           StringifyOrder(projectData.changeOrders[i])] ]

\* a parse that reads null as the empty string
ParseValueNullAsEmpty(v) == IF v.type = "null" THEN "" ELSE v.value

\* JSON.parse of a string, a number or null
ParseValue(v) == IF v.type = "null" THEN "null" ELSE v.value

ParseApproval(a) == [k \in DOMAIN a |-> ParseValue(a[k])]

ParseOrder(o) ==
    [k \in DOMAIN o |->
        IF k = "approvals" THEN [i \in 1..Len(o[k]) |-> ParseApproval(o[k][i])]
        ELSE ParseValue(o[k])]

ParseSettings(st) ==
    [k \in DOMAIN st |->
        IF k = "approverConfig" THEN [r \in DOMAIN st[k] |-> ParseValue(st[k][r])]
        ELSE ParseValue(st[k])]

\* reader.onload: JSON.parse(fileContent) of a text that handleExportProject
\* wrote, with the outcome of the tests made on it
ReadFile(text) ==
    [ parsed |-> TRUE, hasSettings |-> TRUE, ordersIsArray |-> TRUE,
      settings |-> ParseSettings(text.settings),
      changeOrders |-> [i \in 1..Len(text.changeOrders) |-> ParseOrder(text.changeOrders[i])] ]

\* handleExportProject: const projectData = { settings, changeOrders }
ProjectData(st, orders) == [settings |-> st, changeOrders |-> orders]

----------------------------------------------------------------------------
(* State machine *)

\* history record: op names the handler that ran last; before and sel are the
\* collection and the selection it found; order is what it was handed or
\* discarded: the order of handleSave, the file content of reader.onload, the
\* form data of handleCancel, the settings handleSaveSettings or a reload
\* replaced; alert is the message it showed ("" for none)
Idle == [op |-> "none", before |-> <<>>, order |-> <<>>, sel |-> {}, alert |-> ""]

Did(op, order, alert) ==
    [op |-> op, before |-> changeOrders, order |-> order, sel |-> selectedOrderIds,
     alert |-> alert]

Init ==
    /\ changeOrders = <<>>
    /\ currentOrder = <<>>
    /\ view = "table"
    /\ isSettingsOpen = FALSE
    /\ isDeleteConfirmOpen = FALSE
    /\ isRenumberConfirmOpen = FALSE
    /\ isPasswordModalOpen = FALSE
    /\ isAdminMode = FALSE
    /\ selectedOrderIds = {}
    /\ filters = defaultFilters
    /\ settings = InitialSettings
    /\ localStorage = <<>>
    /\ localSettings = <<>>
    /\ pendingReads = 0
    /\ formData = emptyFormState
    /\ internalApprovers = <<>>
    /\ thirdPartyApprovers = <<>>
    /\ errors = {}
    /\ downloads = <<>>
    /\ last = Idle

appFlags == <<isSettingsOpen, isDeleteConfirmOpen, isRenumberConfirmOpen,
              isPasswordModalOpen, isAdminMode>>

formVars == <<formData, internalApprovers, thirdPartyApprovers, errors>>

\* ChangeOrderForm mounts with `order`: useState(order || emptyFormState) and the
\* effect.  With settings that hold no approverConfig the component throws
\* while it renders (approverConfig[role] of undefined) and never mounts.
MountForm(order) ==
    LET existingApprovals == IF order = <<>> THEN <<>> ELSE order[1].approvals
    IN /\ "approverConfig" \in DOMAIN settings
       /\ formData' = (IF order = <<>> THEN emptyFormState ELSE order[1])
       /\ internalApprovers' = ExpandInternal(existingApprovals, settings.approverConfig)
       /\ thirdPartyApprovers' = ExpandThirdParty(existingApprovals, settings.approverConfig)
       /\ errors' = {}

\* ChangeOrderForm unmounts: its state is gone
UnmountForm ==
    /\ formData' = emptyFormState
    /\ internalApprovers' = <<>>
    /\ thirdPartyApprovers' = <<>>
    /\ errors' = {}

\* the rows the table shows
ShownIds == Ids(filteredChangeOrders(changeOrders, filters))

\* a total taken over the whole collection
totalCostImpactUnfiltered == ReduceTotalCost(changeOrders)

\* the total the table shows: useMemo over filteredChangeOrders, itself a
\* useMemo over [changeOrders, filters]; every handler replaces what it
\* changes, so both are recomputed on the render that follows
totalCostImpact == ReduceTotalCost(filteredChangeOrders(changeOrders, filters))

handleFilterChange(name, value) ==
    /\ view = "table"
    /\ filters' = [filters EXCEPT ![name] = value]
    /\ last' = Idle
    /\ UNCHANGED <<changeOrders, currentOrder, view, appFlags, selectedOrderIds, settings,
                   localStorage, localSettings, pendingReads, downloads, formVars>>

clearFilters ==
    /\ view = "table"
    /\ filters' = defaultFilters
    /\ last' = Idle
    /\ UNCHANGED <<changeOrders, currentOrder, view, appFlags, selectedOrderIds, settings,
                   localStorage, localSettings, pendingReads, downloads, formVars>>

handleCreateNew ==
    /\ view = "table"
    /\ currentOrder' = <<>>
    /\ view' = "form"
    /\ MountForm(<<>>)
    /\ filters' = defaultFilters
    /\ last' = Idle
    /\ UNCHANGED <<changeOrders, appFlags, selectedOrderIds, settings, localStorage, localSettings,
                   pendingReads, downloads>>

handleEdit(idToEdit) ==
    /\ view = "table"
    /\ idToEdit \in ShownIds
    /\ LET hits == {i \in 1..Len(changeOrders) : changeOrders[i].id = idToEdit}
           orderToEdit == changeOrders[CHOOSE i \in hits : \A j \in hits : i <= j]
       IN /\ currentOrder' = <<orderToEdit>>
          /\ MountForm(<<orderToEdit>>)
    /\ view' = "form"
    /\ filters' = defaultFilters
    /\ last' = Idle
    /\ UNCHANGED <<changeOrders, appFlags, selectedOrderIds, settings, localStorage, localSettings,
                   pendingReads, downloads>>

\* a cancel that writes the edited order into the collection
handleCancelCommitting ==
    /\ view = "form"
    /\ view' = "table"
    /\ currentOrder' = <<>>
    /\ selectedOrderIds' = {}
    /\ UnmountForm
    /\ changeOrders' = [i \in 1..Len(changeOrders) |->
                           IF changeOrders[i].id = formData.id THEN formData
                           ELSE changeOrders[i]]
    /\ last' = Did("cancel", <<formData>>, "")
    /\ UNCHANGED <<appFlags, filters, settings, localStorage, localSettings, pendingReads,
                   downloads>>

handleCancel ==
    /\ view = "form"
    /\ view' = "table"
    /\ currentOrder' = <<>>
    /\ selectedOrderIds' = {}
    /\ UnmountForm
    /\ last' = Did("cancel", <<formData>>, "")
    /\ UNCHANGED <<changeOrders, appFlags, filters, settings, localStorage, localSettings, pendingReads, downloads>>

\* handleChange on a text, date or select input of the form
handleChange(name, value) ==
    /\ view = "form"
    /\ formData' = [formData EXCEPT ![name] = value]
    /\ last' = Idle
    /\ UNCHANGED <<changeOrders, currentOrder, view, appFlags, selectedOrderIds, filters,
                   settings, localStorage, localSettings, pendingReads, downloads, internalApprovers,
                   thirdPartyApprovers, errors>>

\* handleChange on a number input of the form: the number is stored whatever
\* its sign, the message for a negative one is display only
handleChangeNumber(name, value) ==
    /\ view = "form"
    /\ formData' = [formData EXCEPT ![name] = ProcessedValue(value)]
    /\ errors' = IF ParseFloat(value) # <<>> /\ ParseFloat(value)[1] < 0
                 THEN errors \cup {name} ELSE errors \ {name}
    /\ last' = Idle
    /\ UNCHANGED <<changeOrders, currentOrder, view, appFlags, selectedOrderIds, filters,
                   settings, localStorage, localSettings, pendingReads, downloads, internalApprovers,
                   thirdPartyApprovers>>

handleThirdPartyApproverChange(index, field, value) ==
    /\ view = "form"
    /\ index \in 1..Len(thirdPartyApprovers)
    /\ LET set == [thirdPartyApprovers[index] EXCEPT ![field] = value]
           promoted ==
               IF field = "approvalDate" /\ value # "" /\ set.status = "Pending"
               THEN [set EXCEPT !.status = "Approved"] ELSE set
           cleared ==
               IF field = "status" /\ value = "Pending"
               THEN [promoted EXCEPT !.approvalDate = ""] ELSE promoted
       IN thirdPartyApprovers' = [thirdPartyApprovers EXCEPT ![index] = cleared]
    /\ last' = Idle
    /\ UNCHANGED <<changeOrders, currentOrder, view, appFlags, selectedOrderIds, filters,
                   settings, localStorage, localSettings, pendingReads, downloads, formData, internalApprovers,
                   errors>>

addThirdPartyApprover ==
    /\ view = "form"
    /\ Len(thirdPartyApprovers) < MaxThirdParty
    /\ thirdPartyApprovers' =
           Append(thirdPartyApprovers, [name |-> <<>>, status |-> "Pending", approvalDate |-> ""])
    /\ last' = Idle
    /\ UNCHANGED <<changeOrders, currentOrder, view, appFlags, selectedOrderIds, filters,
                   settings, localStorage, localSettings, pendingReads, downloads, formData, internalApprovers,
                   errors>>

removeThirdPartyApprover(index) ==
    /\ view = "form"
    /\ index \in 1..Len(thirdPartyApprovers)
    /\ thirdPartyApprovers' =
           FilterIdx(thirdPartyApprovers, (1..Len(thirdPartyApprovers)) \ {index})
    /\ last' = Idle
    /\ UNCHANGED <<changeOrders, currentOrder, view, appFlags, selectedOrderIds, filters,
                   settings, localStorage, localSettings, pendingReads, downloads, formData, internalApprovers,
                   errors>>

\* handleSave, called by the form's handleSubmit.  A create is taken only
\* while the collection and the new id stay within the model's bounds.
handleSave(orderFromForm) ==
    /\ orderFromForm.id = 0 =>
           Len(changeOrders) < MaxOrders /\ NewCoId(changeOrders) <= MaxId
    /\ changeOrders' = SaveOrders(changeOrders, OrderToSave(orderFromForm))
    /\ view' = "table"
    /\ currentOrder' = <<>>
    /\ selectedOrderIds' = {}
    /\ UnmountForm
    /\ last' = Did("save", <<orderFromForm>>, "")
    /\ UNCHANGED <<appFlags, filters, settings, localStorage, localSettings, pendingReads, downloads>>

handleSubmit ==
    /\ view = "form"
    /\ IF ~RequiredFilled(formData)
       THEN /\ errors' = (errors \ {"title", "description", "reason"})
                              \cup RequiredErrors(formData)
            /\ last' = Did("submit",  <<>>,
                  "Please fill out Title, Description, and Reason for Change before saving.")
            /\ UNCHANGED <<changeOrders, currentOrder, view, appFlags, selectedOrderIds,
                           filters, settings, localStorage, localSettings, pendingReads, downloads,
                           formData, internalApprovers, thirdPartyApprovers>>
       ELSE handleSave([formData EXCEPT !.approvals =
                FinalApprovals(internalApprovers, thirdPartyApprovers, settings.approverConfig)])

handleInternalApproverChange(index, field, value) ==
    /\ view = "form"
    /\ index \in 1..Len(internalApprovers)
    /\ LET set == [internalApprovers[index] EXCEPT ![field] = value]
           promoted ==
               IF field = "approvalDate" /\ value # "" /\ set.status = "Pending"
               THEN [set EXCEPT !.status = "Approved"] ELSE set
           cleared ==
               IF field = "status" /\ value = "Pending"
               THEN [promoted EXCEPT !.approvalDate = ""] ELSE promoted
           reset ==
               IF field = "included" /\ value = FALSE
               THEN [cleared EXCEPT !.status = "Pending", !.approvalDate = ""] ELSE cleared
       IN internalApprovers' = [internalApprovers EXCEPT ![index] = reset]
    /\ last' = Idle
    /\ UNCHANGED <<changeOrders, currentOrder, view, appFlags, selectedOrderIds, filters,
                   settings, localStorage, localSettings, pendingReads, downloads, formData, thirdPartyApprovers,
                   errors>>

\* a row's checkbox shows selectedOrderIds.has(id); a click hands over the opposite
handleSelectSingle(id) ==
    /\ view = "table"
    /\ id \in ShownIds
    /\ selectedOrderIds' =
           IF id \notin selectedOrderIds
           THEN selectedOrderIds \cup {id} ELSE selectedOrderIds \ {id}
    /\ last' = Idle
    /\ UNCHANGED <<changeOrders, currentOrder, view, appFlags, filters, settings,
                   localStorage, localSettings, pendingReads, downloads, formVars>>

isSelectAllChecked == ShownIds # {} /\ ShownIds \subseteq selectedOrderIds

\* a select-all that takes the ids of the whole collection
handleSelectAllUnfiltered ==
    /\ view = "table"
    /\ selectedOrderIds' =
           IF ~isSelectAllChecked
           THEN selectedOrderIds \cup Ids(changeOrders) ELSE selectedOrderIds \ Ids(changeOrders)
    /\ last' = [Idle EXCEPT !.op = "selectAll", !.sel = selectedOrderIds]
    /\ UNCHANGED <<changeOrders, currentOrder, view, appFlags, filters, settings,
                   localStorage, localSettings, pendingReads, downloads, formVars>>

\* the header checkbox shows isSelectAllChecked; a click hands over the opposite
handleSelectAll ==
    /\ view = "table"
    /\ selectedOrderIds' =
           IF ~isSelectAllChecked
           THEN selectedOrderIds \cup ShownIds ELSE selectedOrderIds \ ShownIds
    /\ last' = [Idle EXCEPT !.op = "selectAll", !.sel = selectedOrderIds]
    /\ UNCHANGED <<changeOrders, currentOrder, view, appFlags, filters, settings,
                   localStorage, localSettings, pendingReads, downloads, formVars>>

\* the button is disabled while nothing is selected
handleDeleteSelected ==
    /\ view = "table"
    /\ selectedOrderIds # {}
    /\ isDeleteConfirmOpen' = TRUE
    /\ last' = Idle
    /\ UNCHANGED <<changeOrders, currentOrder, view, isSettingsOpen, isRenumberConfirmOpen,
                   isPasswordModalOpen, isAdminMode, selectedOrderIds, filters, settings,
                   localStorage, localSettings, pendingReads, downloads, formVars>>

\* a delete that leaves the selection as it was
executeDeleteKeepingSelection ==
    /\ isDeleteConfirmOpen
    /\ changeOrders' = DeleteOrders(changeOrders, selectedOrderIds)
    /\ isDeleteConfirmOpen' = FALSE
    /\ last' = Did("delete", <<>>, "")
    /\ UNCHANGED <<currentOrder, view, isSettingsOpen, isRenumberConfirmOpen,
                   isPasswordModalOpen, isAdminMode, filters, settings, localStorage,
                   localSettings, pendingReads, downloads, formVars, selectedOrderIds>>

executeDelete ==
    /\ isDeleteConfirmOpen
    /\ changeOrders' = DeleteOrders(changeOrders, selectedOrderIds)
    /\ selectedOrderIds' = {}
    /\ isDeleteConfirmOpen' = FALSE
    /\ last' = Did("delete", <<>>, "")
    /\ UNCHANGED <<currentOrder, view, isSettingsOpen, isRenumberConfirmOpen,
                   isPasswordModalOpen, isAdminMode, filters, settings, localStorage, localSettings,
                   pendingReads, downloads, formVars>>

\* ConfirmModal onClose of the delete confirmation
closeDeleteConfirm ==
    /\ isDeleteConfirmOpen
    /\ isDeleteConfirmOpen' = FALSE
    /\ last' = Idle
    /\ UNCHANGED <<changeOrders, currentOrder, view, isSettingsOpen, isRenumberConfirmOpen,
                   isPasswordModalOpen, isAdminMode, selectedOrderIds, filters, settings,
                   localStorage, localSettings, pendingReads, downloads, formVars>>

handleEnterAdminMode ==
    /\ view = "table"
    /\ ~isAdminMode
    /\ isPasswordModalOpen' = TRUE
    /\ last' = Idle
    /\ UNCHANGED <<changeOrders, currentOrder, view, isSettingsOpen, isDeleteConfirmOpen,
                   isRenumberConfirmOpen, isAdminMode, selectedOrderIds, filters, settings,
                   localStorage, localSettings, pendingReads, downloads, formVars>>

handleAdminLogin(password) ==
    /\ isPasswordModalOpen
    /\ IF password = "0665"
       THEN /\ isAdminMode' = TRUE
            /\ isPasswordModalOpen' = FALSE
            /\ last' = Idle
       ELSE /\ UNCHANGED <<isAdminMode, isPasswordModalOpen>>
            /\ last' = Idle
    /\ UNCHANGED <<changeOrders, currentOrder, view, isSettingsOpen, isDeleteConfirmOpen,
                   isRenumberConfirmOpen, selectedOrderIds, filters, settings,
                   localStorage, localSettings, pendingReads, downloads, formVars>>

\* onExitAdminMode
exitAdminMode ==
    /\ view = "table"
    /\ isAdminMode
    /\ isAdminMode' = FALSE
    /\ last' = Idle
    /\ UNCHANGED <<changeOrders, currentOrder, view, isSettingsOpen, isDeleteConfirmOpen,
                   isRenumberConfirmOpen, isPasswordModalOpen, selectedOrderIds, filters,
                   settings, localStorage, localSettings, pendingReads, downloads, formVars>>

\* onRenumber
openRenumberConfirm ==
    /\ view = "table"
    /\ isAdminMode
    /\ isRenumberConfirmOpen' = TRUE
    /\ last' = Idle
    /\ UNCHANGED <<changeOrders, currentOrder, view, isSettingsOpen, isDeleteConfirmOpen,
                   isPasswordModalOpen, isAdminMode, selectedOrderIds, filters, settings,
                   localStorage, localSettings, pendingReads, downloads, formVars>>

handleRenumber ==
    /\ isRenumberConfirmOpen
    /\ isRenumberConfirmOpen' = FALSE
    /\ IF Len(changeOrders) = 0
       THEN /\ last' = Did("renumber", <<>>, "No change orders to renumber.")
            /\ UNCHANGED <<changeOrders, selectedOrderIds>>
       ELSE /\ \E sortedOrders \in SortOutcomes(changeOrders) :
                   changeOrders' = RenumberOrders(sortedOrders)
            /\ selectedOrderIds' = {}
            /\ last' = Did("renumber", <<>>, "Successfully renumbered change orders.")
    /\ UNCHANGED <<currentOrder, view, isSettingsOpen, isDeleteConfirmOpen,
                   isPasswordModalOpen, isAdminMode, filters, settings, localStorage, localSettings,
                   pendingReads, downloads, formVars>>

\* ConfirmModal onClose of the renumber confirmation
closeRenumberConfirm ==
    /\ isRenumberConfirmOpen
    /\ isRenumberConfirmOpen' = FALSE
    /\ last' = Idle
    /\ UNCHANGED <<changeOrders, currentOrder, view, isSettingsOpen, isDeleteConfirmOpen,
                   isPasswordModalOpen, isAdminMode, selectedOrderIds, filters, settings,
                   localStorage, localSettings, pendingReads, downloads, formVars>>

\* handleExportProject.  The file written is kept with the state it was
\* written from (from: history).
\* onConfigure: the Settings button of the table mounts the modal, which
\* starts from the current settings and reads their approverConfig
onConfigure ==
    /\ view = "table"
    /\ ~isSettingsOpen
    /\ "approverConfig" \in DOMAIN settings
    /\ isSettingsOpen' = TRUE
    /\ localSettings' = <<settings>>
    /\ last' = Idle
    /\ UNCHANGED <<changeOrders, currentOrder, view, isDeleteConfirmOpen,
                   isRenumberConfirmOpen, isPasswordModalOpen, isAdminMode, selectedOrderIds,
                   filters, settings, localStorage, pendingReads, downloads, formVars>>

\* SettingsModal: handleApproverChange
handleApproverChange(role, name) ==
    /\ isSettingsOpen
    /\ localSettings' =
           <<[localSettings[1] EXCEPT !.approverConfig =
                 [r \in DOMAIN localSettings[1].approverConfig \cup {role} |->
                     IF r = role THEN name ELSE localSettings[1].approverConfig[r]]]>>
    /\ last' = Idle
    /\ UNCHANGED <<changeOrders, currentOrder, view, appFlags, selectedOrderIds, filters,
                   settings, localStorage, pendingReads, downloads, formVars>>

\* onClose of the settings modal
closeSettings ==
    /\ isSettingsOpen
    /\ isSettingsOpen' = FALSE
    /\ localSettings' = <<>>
    /\ last' = Idle
    /\ UNCHANGED <<changeOrders, currentOrder, view, isDeleteConfirmOpen,
                   isRenumberConfirmOpen, isPasswordModalOpen, isAdminMode, selectedOrderIds,
                   filters, settings, localStorage, pendingReads, downloads, formVars>>

\* handleSaveSettings, called by the modal's handleSave with its localSettings:
\* the settings are written to localStorage and then set, or setItem throws
\* and nothing changes.  An open form runs its effect again when the
\* approverConfig it was given has changed.
handleSaveSettings ==
    /\ isSettingsOpen
    /\ \/ /\ localStorage' = <<StringifySettings(localSettings[1])>>
          /\ settings' = localSettings[1]
          /\ isSettingsOpen' = FALSE
          /\ localSettings' = <<>>
          /\ IF view = "form" /\ localSettings[1].approverConfig # settings.approverConfig
             THEN LET existingApprovals ==
                          IF currentOrder = <<>> THEN <<>> ELSE currentOrder[1].approvals
                  IN /\ formData' = (IF currentOrder = <<>> THEN emptyFormState
                                     ELSE currentOrder[1])
                     /\ internalApprovers' =
                            ExpandInternal(existingApprovals, localSettings[1].approverConfig)
                     /\ thirdPartyApprovers' =
                            ExpandThirdParty(existingApprovals, localSettings[1].approverConfig)
                     /\ errors' = {}
             ELSE UNCHANGED formVars
          /\ last' = [Idle EXCEPT !.op = "saveSettings", !.order = <<settings>>,
                                   !.alert = "Settings saved."]
       \/ /\ last' = [Idle EXCEPT !.op = "saveSettings", !.order = <<settings>>,
                                   !.alert = "Could not save settings."]
          /\ UNCHANGED <<localStorage, settings, isSettingsOpen, localSettings, formVars>>
    /\ UNCHANGED <<changeOrders, currentOrder, view, isDeleteConfirmOpen,
                   isRenumberConfirmOpen, isPasswordModalOpen, isAdminMode, selectedOrderIds,
                   filters, pendingReads, downloads>>

\* the page is loaded again: App mounts with its initial state and its effect
\* reads localStorage, keeping what it finds when it holds an approverConfig
AppMount ==
    /\ changeOrders' = <<>>
    /\ currentOrder' = <<>>
    /\ view' = "table"
    /\ isSettingsOpen' = FALSE
    /\ isDeleteConfirmOpen' = FALSE
    /\ isRenumberConfirmOpen' = FALSE
    /\ isPasswordModalOpen' = FALSE
    /\ isAdminMode' = FALSE
    /\ selectedOrderIds' = {}
    /\ filters' = defaultFilters
    /\ settings' = IF localStorage # <<>> /\ "approverConfig" \in DOMAIN localStorage[1]
                   THEN ParseSettings(localStorage[1]) ELSE InitialSettings
    /\ localSettings' = <<>>
    /\ pendingReads' = 0
    /\ UnmountForm
    /\ last' = [Idle EXCEPT !.op = "reload", !.order = <<settings>>]
    /\ UNCHANGED <<localStorage, downloads>>

handleExportProject ==
    /\ view = "table"
    /\ IF Len(changeOrders) = 0
          /\ ("projectName" \notin DOMAIN settings \/ settings.projectName = <<>>)
       THEN /\ last' = Did("export", <<>>, "There is no project data to export.")
            /\ UNCHANGED downloads
       ELSE /\ downloads' = <<[text |-> Stringify(ProjectData(settings, changeOrders)),
                               from |-> ProjectData(settings, changeOrders)]>>
            /\ last' = Did("export", <<>>, "")
    /\ UNCHANGED <<changeOrders, currentOrder, view, appFlags, selectedOrderIds, filters,
                   settings, localStorage, localSettings, pendingReads, formVars>>

\* handleTriggerImport, the confirmation accepted and a file picked, then
\* handleFileImport up to reader.readAsText(file)
handleFileImport ==
    /\ view = "table"
    /\ pendingReads < MaxPendingReads
    /\ pendingReads' = pendingReads + 1
    /\ last' = Idle
    /\ UNCHANGED <<changeOrders, currentOrder, view, appFlags, selectedOrderIds, filters,
                   settings, localStorage, localSettings, downloads, formVars>>

\* reader.onload with the file's content: parsed == FALSE when JSON.parse
\* throws; hasSettings is the truthiness of data.settings and ordersIsArray is
\* Array.isArray(data.changeOrders)
readerOnload(content) ==
    /\ pendingReads > 0
    /\ pendingReads' = pendingReads - 1
    /\ IF content.parsed /\ content.hasSettings /\ content.ordersIsArray
       THEN /\ settings' = content.settings
            /\ changeOrders' = content.changeOrders
            /\ currentOrder' = <<>>
            /\ view' = "table"
            /\ selectedOrderIds' = {}
            /\ UnmountForm
            /\ last' = [Idle EXCEPT !.op = "import", !.order = <<content>>,
                                     !.alert = "Project imported successfully!"]
       ELSE /\ last' = Did("import", <<content>>,
                           "Error: The selected file is not a valid project file.")
            /\ UNCHANGED <<settings, changeOrders, currentOrder, view, selectedOrderIds,
                           formVars>>
    /\ UNCHANGED <<appFlags, filters, localStorage, localSettings, downloads>>

----------------------------------------------------------------------------
(* Inputs *)

\* an order as an imported project file may hold it
ImportedOrder(id) == [emptyFormState EXCEPT !.id = id, !.title = <<"T">>,
                        !.description = <<"T">>, !.reason = <<"T">>]

\* the changeOrders arrays of the project files the model imports: the import
\* does not validate ids, so the sentinel 0 and a repeated id are among them
ImportedCollections ==
    { <<>>,
      <<ImportedOrder(2)>>,
      <<ImportedOrder(0), ImportedOrder(1)>>,
      <<ImportedOrder(1), ImportedOrder(1)>> }

ImportFiles ==
    {[parsed |-> FALSE, hasSettings |-> FALSE, ordersIsArray |-> FALSE,
      settings |-> InitialSettings, changeOrders |-> <<>>]}
    \cup {[parsed |-> TRUE, hasSettings |-> TRUE, ordersIsArray |-> TRUE,
           settings |-> InitialSettings, changeOrders |-> c] : c \in ImportedCollections}

\* what the user types into the required text fields, and the dates picked
RequiredFields == {"title", "description", "reason"}

StoreDates == {"2024-01-10"}

----------------------------------------------------------------------------
(* The store under create, update, delete, renumber and import *)

StoreNext ==
    \/ handleCreateNew
    \/ \E id \in ShownIds : handleEdit(id)
    \/ handleCancel
    \/ \E name \in RequiredFields : handleChange(name, <<"T">>)
    \/ handleSubmit
    \/ \E id \in ShownIds : handleSelectSingle(id)
    \/ handleSelectAll
    \/ handleDeleteSelected
    \/ executeDelete
    \/ closeDeleteConfirm
    \/ handleEnterAdminMode
    \/ \E password \in {"0665", "0000"} : handleAdminLogin(password)
    \/ exitAdminMode
    \/ openRenumberConfirm
    \/ handleRenumber
    \/ handleFileImport
    \/ \E content \in ImportFiles : readerOnload(content)

StoreSpec == Init /\ [][StoreNext]_vars

----------------------------------------------------------------------------
(* Editing: orders whose dates are edited, in collections a delete or an
   import may change while the form is open *)

EditNext ==
    \/ (Len(changeOrders) < MaxEdited /\ handleCreateNew)
    \/ \E id \in ShownIds : handleEdit(id)
    \/ handleCancel
    \/ \E name \in RequiredFields : handleChange(name, <<"T">>)
    \/ \E d \in StoreDates : handleChange("dateRequested", d)
    \/ handleSubmit
    \/ \E id \in ShownIds : handleSelectSingle(id)
    \/ handleSelectAll
    \/ handleDeleteSelected
    \/ executeDelete
    \/ closeDeleteConfirm
    \/ handleFileImport
    \/ \E content \in ImportFiles : readerOnload(content)

EditSpec == Init /\ [][EditNext]_vars

----------------------------------------------------------------------------
(* Status derivation: orders saved with every form status and every mix of
   third-party approvals *)

ThirdPartyNames == {<<"X">>}

StatusNext ==
    \/ (Len(changeOrders) < MaxDerived /\ handleCreateNew)
    \/ \E id \in ShownIds : handleEdit(id)
    \/ handleCancel
    \/ \E name \in RequiredFields : handleChange(name, <<"T">>)
    \/ \E st \in ChangeOrderStatus : handleChange("status", st)
    \/ addThirdPartyApprover
    \/ \E i \in 1..MaxThirdParty, n \in ThirdPartyNames :
           handleThirdPartyApproverChange(i, "name", n)
    \/ \E i \in 1..MaxThirdParty, st \in ApprovalStatus :
           handleThirdPartyApproverChange(i, "status", st)
    \/ \E i \in 1..MaxThirdParty : removeThirdPartyApprover(i)
    \/ handleSubmit

StatusSpec == Init /\ [][StatusNext]_vars

----------------------------------------------------------------------------
(* Project files: imports of files of every shape the validation tells
   apart, into collections the form has filled *)

\* settings as a project file may hold them, with a key for every role
ConfiguredSettings ==
    [ projectName |-> <<"P">>, projectLocation |-> <<>>, projectManager |-> <<>>,
      approverConfig |-> [r \in RoleSet |-> IF r = APPROVER_ROLES[1] THEN <<"A">> ELSE <<>>] ]

\* a truthy settings value that holds no approverConfig
SettingsWithoutConfig == [ projectName |-> <<"P">> ]

ProjectFiles ==
    { \* not JSON
      [parsed |-> FALSE, hasSettings |-> FALSE, ordersIsArray |-> FALSE,
       settings |-> InitialSettings, changeOrders |-> <<>>],
      \* no settings
      [parsed |-> TRUE, hasSettings |-> FALSE, ordersIsArray |-> TRUE,
       settings |-> InitialSettings, changeOrders |-> <<ImportedOrder(1)>>],
      \* changeOrders is no array
      [parsed |-> TRUE, hasSettings |-> TRUE, ordersIsArray |-> FALSE,
       settings |-> ConfiguredSettings, changeOrders |-> <<>>],
      \* settings without approverConfig
      [parsed |-> TRUE, hasSettings |-> TRUE, ordersIsArray |-> TRUE,
       settings |-> SettingsWithoutConfig, changeOrders |-> <<ImportedOrder(2)>>],
      \* a project file as handleExportProject writes it
      [parsed |-> TRUE, hasSettings |-> TRUE, ordersIsArray |-> TRUE,
       settings |-> ConfiguredSettings, changeOrders |-> <<ImportedOrder(2), ImportedOrder(1)>>] }

ImportNext ==
    \/ handleCreateNew
    \/ \E id \in ShownIds : handleEdit(id)
    \/ handleCancel
    \/ \E name \in RequiredFields : handleChange(name, <<"T">>)
    \/ handleSubmit
    \/ \E id \in ShownIds : handleSelectSingle(id)
    \/ handleFileImport
    \/ \E content \in ProjectFiles : readerOnload(content)

ImportSpec == Init /\ [][ImportNext]_vars

----------------------------------------------------------------------------
(* Round trip: a project exported, the collection changed by creates, edits,
   deletes and imports of another project, and the exported file imported *)

\* another project
OtherProject ==
    [parsed |-> TRUE, hasSettings |-> TRUE, ordersIsArray |-> TRUE,
     settings |-> ConfiguredSettings, changeOrders |-> <<ImportedOrder(2), ImportedOrder(1)>>]

\* the files the user can pick: another project and the file last exported
PickedFiles ==
    {OtherProject} \cup {ReadFile(downloads[i].text) : i \in 1..Len(downloads)}

RoundTripNext ==
    \/ (Len(changeOrders) < MaxEdited /\ handleCreateNew)
    \/ \E name \in RequiredFields : handleChange(name, <<"T">>)
    \/ (Len(thirdPartyApprovers) < MaxAttached /\ addThirdPartyApprover)
    \/ \E i \in 1..MaxAttached, n \in ThirdPartyNames :
           handleThirdPartyApproverChange(i, "name", n)
    \/ handleSubmit
    \/ \E id \in ShownIds : handleSelectSingle(id)
    \/ handleDeleteSelected
    \/ executeDelete
    \/ handleExportProject
    \/ handleFileImport
    \/ \E content \in PickedFiles : readerOnload(content)

RoundTripSpec == Init /\ [][RoundTripNext]_vars

----------------------------------------------------------------------------
(* The filter bar: a project with orders of different ids, titles, statuses,
   dates, costs and schedule impacts, filtered on every criterion, with
   select-all, delete and re-import changing the collection under the filters *)

FilteredOrders ==
    << [ImportedOrder(12) EXCEPT !.title = <<"A", "b">>, !.status = "Approved",
            !.dateRequested = "2024-03-01", !.costImpactEquipment = 5,
            !.scheduleImpactDays = 5],
       [ImportedOrder(2) EXCEPT !.title = <<"B">>, !.dateRequested = "2024-02-15",
            !.costImpactEquipment = 10, !.costImpactInstallation = 2,
            !.scheduleImpactDays = 10],
       [ImportedOrder(1) EXCEPT !.status = "Approved", !.dateRequested = "2024-01-10",
            !.costImpactEquipment = 20, !.costImpactInstallation = 20,
            !.costImpactOther = 10, !.scheduleImpactDays = 20] >>

FilteredProject ==
    [parsed |-> TRUE, hasSettings |-> TRUE, ordersIsArray |-> TRUE,
     settings |-> ConfiguredSettings, changeOrders |-> FilteredOrders]

\* what is typed or picked in each control of the filter bar; the empty value
\* is what a cleared control, or a number input that holds no number, gives
FilterInputs ==
    [ id |-> {<<>>, <<"1">>},
      title |-> {<<>>, <<"b">>},
      status |-> {"All", "Approved"},
      dateRequested |-> {"", "2024-02-15"},
      costMin |-> {<<>>, <<"1", "0">>},
      costMax |-> {<<>>, <<"5", "0">>},
      scheduleMin |-> {<<>>, <<"1", "e", "1">>},
      scheduleMax |-> {<<>>, <<"2", "0">>} ]

FilterNext ==
    \/ handleFileImport
    \/ readerOnload(FilteredProject)
    \/ \E name \in DOMAIN FilterInputs : \E value \in FilterInputs[name] :
           handleFilterChange(name, value)
    \/ clearFilters
    \/ \E id \in ShownIds : handleSelectSingle(id)
    \/ handleSelectAll
    \/ handleDeleteSelected
    \/ executeDelete
    \/ handleCreateNew
    \/ handleCancel

FilterSpec == Init /\ [][FilterNext]_vars

----------------------------------------------------------------------------
(* The approvals section of the form: projects with two configured roles,
   their orders edited through every control the section enables *)

\* settings with the first two roles configured
TwoRoleSettings(first, second) ==
    [ projectName |-> <<"P">>, projectLocation |-> <<>>, projectManager |-> <<>>,
      approverConfig |->
          [r \in RoleSet |-> IF r = APPROVER_ROLES[1] THEN first
                             ELSE IF r = APPROVER_ROLES[2] THEN second ELSE <<>>] ]

ApprovedOrder(approval) == [ImportedOrder(1) EXCEPT !.approvals = <<approval>>]

ApprovalFiles ==
    { \* two roles with names of their own, an order the first has approved
      [parsed |-> TRUE, hasSettings |-> TRUE, ordersIsArray |-> TRUE,
       settings |-> TwoRoleSettings(<<"A">>, <<"B">>),
       changeOrders |-> <<ApprovedOrder([name |-> <<"A">>, status |-> "Approved",
                                         approvalDate |-> "2024-01-10"])>>],
      \* the same, the approval written as Pending with its date left in
      [parsed |-> TRUE, hasSettings |-> TRUE, ordersIsArray |-> TRUE,
       settings |-> TwoRoleSettings(<<"A">>, <<"B">>),
       changeOrders |-> <<ApprovedOrder([name |-> <<"A">>, status |-> "Pending",
                                         approvalDate |-> "2024-01-10"])>>],
      \* two roles configured with one display name
      [parsed |-> TRUE, hasSettings |-> TRUE, ordersIsArray |-> TRUE,
       settings |-> TwoRoleSettings(<<"A">>, <<"A">>),
       changeOrders |-> <<ImportedOrder(1)>>] }

\* what the approval controls are set to
StatusChoices == {"Pending", "Approved"}

DateChoices == {"", "2024-01-10"}

ApproverNames == {<<"X">>, <<"A">>}

\* the controls of an internal row: the status select is disabled while the
\* row is not included, the date input while it is not included or Pending
InternalRowInput(index) ==
    \/ \E checked \in BOOLEAN : handleInternalApproverChange(index, "included", checked)
    \/ /\ index \in 1..Len(internalApprovers)
       /\ internalApprovers[index].included
       /\ \E st \in StatusChoices : handleInternalApproverChange(index, "status", st)
    \/ /\ index \in 1..Len(internalApprovers)
       /\ internalApprovers[index].included
       /\ internalApprovers[index].status # "Pending"
       /\ \E d \in DateChoices : handleInternalApproverChange(index, "approvalDate", d)

\* the controls of a third-party row: the date input is disabled while the
\* row is Pending
ThirdPartyRowInput(index) ==
    \/ \E n \in ApproverNames : handleThirdPartyApproverChange(index, "name", n)
    \/ \E st \in StatusChoices : handleThirdPartyApproverChange(index, "status", st)
    \/ /\ index \in 1..Len(thirdPartyApprovers)
       /\ thirdPartyApprovers[index].status # "Pending"
       /\ \E d \in DateChoices : handleThirdPartyApproverChange(index, "approvalDate", d)

ApprovalNext ==
    \/ handleFileImport
    \/ \E content \in ApprovalFiles : readerOnload(content)
    \/ \E id \in ShownIds : handleEdit(id)
    \/ handleCancel
    \/ \E index \in 1..2 : InternalRowInput(index)
    \/ (Len(thirdPartyApprovers) < MaxAttached /\ addThirdPartyApprover)
    \/ \E index \in 1..MaxAttached : ThirdPartyRowInput(index)
    \/ handleSubmit

ApprovalSpec == Init /\ [][ApprovalNext]_vars

----------------------------------------------------------------------------
(* Renumbering: orders created with the dates the form's date input gives,
   its empty value among them, and renumbered in admin mode *)

----------------------------------------------------------------------------
(* Validation at commit: required text typed as blanks or as text, numbers
   typed with and without a sign *)

TypedText == {<<" ">>, <<"T">>}

TypedNumbers == {<<"-", "5">>, <<"5">>}

FormNumberInputs == {"costImpactEquipment", "scheduleImpactDays"}

ValidationNext ==
    \/ (Len(changeOrders) < MaxDerived /\ handleCreateNew)
    \/ \E id \in ShownIds : handleEdit(id)
    \/ handleCancel
    \/ \E name \in RequiredFields, value \in TypedText : handleChange(name, value)
    \/ \E name \in FormNumberInputs, value \in TypedNumbers : handleChangeNumber(name, value)
    \/ handleSubmit

ValidationSpec == Init /\ [][ValidationNext]_vars

----------------------------------------------------------------------------
(* Settings: a project whose roles are renamed in the settings modal, its
   order edited and saved afterwards, and the page loaded again *)

\* two configured roles, an order approved by the first and pending with a
\* third party
RenamedProject ==
    [parsed |-> TRUE, hasSettings |-> TRUE, ordersIsArray |-> TRUE,
     settings |-> TwoRoleSettings(<<"A">>, <<"B">>),
     changeOrders |->
         <<[ImportedOrder(1) EXCEPT !.approvals =
               << [name |-> <<"A">>, status |-> "Approved", approvalDate |-> "2024-01-10"],
                  [name |-> <<"X">>, status |-> "Pending", approvalDate |-> "null"] >>]>>]

\* the names typed for a role
RoleNames == {<<"A">>, <<"C">>, <<"X">>}

SettingsNext ==
    \/ handleFileImport
    \/ readerOnload(RenamedProject)
    \/ onConfigure
    \/ \E k \in 1..2, name \in RoleNames : handleApproverChange(APPROVER_ROLES[k], name)
    \/ handleSaveSettings
    \/ closeSettings
    \/ (~isSettingsOpen /\ \E id \in ShownIds : handleEdit(id))
    \/ handleCancel
    \/ handleSubmit
    \/ AppMount

SettingsSpec == Init /\ [][SettingsNext]_vars

----------------------------------------------------------------------------
(* The status of stored orders over their whole life: created and updated
   with a form status and a third-party approval of every status, deleted and
   renumbered, never imported *)

FormStatuses == {"Approved", "Rejected", "Completed"}

LifecycleNext ==
    \/ (Len(changeOrders) < MaxEdited /\ handleCreateNew)
    \/ \E id \in ShownIds : handleEdit(id)
    \/ handleCancel
    \/ \E name \in RequiredFields : handleChange(name, <<"T">>)
    \/ \E st \in FormStatuses : handleChange("status", st)
    \/ (Len(thirdPartyApprovers) < MaxAttached /\ addThirdPartyApprover)
    \/ \E n \in ThirdPartyNames : handleThirdPartyApproverChange(1, "name", n)
    \/ \E st \in ApprovalStatus : handleThirdPartyApproverChange(1, "status", st)
    \/ handleSubmit
    \/ handleSelectAll
    \/ handleDeleteSelected
    \/ executeDelete
    \/ handleEnterAdminMode
    \/ handleAdminLogin("0665")
    \/ openRenumberConfirm
    \/ handleRenumber

LifecycleSpec == Init /\ [][LifecycleNext]_vars

----------------------------------------------------------------------------
(* Cancelling: an imported order opened, its fields and approver rows edited,
   rows added and removed, and the form cancelled or saved *)

CancelNext ==
    \/ handleFileImport
    \/ readerOnload(RenamedProject)
    \/ \E id \in ShownIds : handleEdit(id)
    \/ handleCancel
    \/ handleChange("title", <<"U">>)
    \/ handleChangeNumber("costImpactEquipment", <<"5">>)
    \/ InternalRowInput(1)
    \/ addThirdPartyApprover
    \/ \E index \in 1..MaxThirdParty, name \in ThirdPartyNames :
           handleThirdPartyApproverChange(index, "name", name)
    \/ \E index \in 1..MaxThirdParty : removeThirdPartyApprover(index)
    \/ handleSubmit

CancelSpec == Init /\ [][CancelNext]_vars

RenumberDates == {"2024-01-10", "2024-03-01", ""}

RenumberNext ==
    \/ handleCreateNew
    \/ \E name \in RequiredFields : handleChange(name, <<"T">>)
    \/ \E d \in RenumberDates : handleChange("dateRequested", d)
    \/ handleSubmit
    \/ handleEnterAdminMode
    \/ handleAdminLogin("0665")
    \/ openRenumberConfirm
    \/ handleRenumber
    \/ closeRenumberConfirm

RenumberSpec == Init /\ [][RenumberNext]_vars

----------------------------------------------------------------------------
(* Properties.  Each reads the history record: what the last handler was
   given, and the collection it found. *)

Saved == last.op = "save"

\* the order handleSave was given
Submitted == last.order[1]

HasStatus(approvals, st) == \E i \in 1..Len(approvals) : approvals[i].status = st

AllStatus(approvals, st) == \A i \in 1..Len(approvals) : approvals[i].status = st

Sticky(status) == status \in {"In Progress", "Completed"}

\* the largest of the ids of a collection and 0
TopId(orders) ==
    LET ids == Ids(orders) \cup {0}
    IN CHOOSE m \in ids : \A z \in ids : z <= m

\* the id under which the last save committed its order
CommittedId == IF Submitted.id = 0 THEN TopId(last.before) + 1 ELSE Submitted.id

\* the entries of the collection that hold the order the last save committed
Committed ==
    {changeOrders[i] : i \in {j \in 1..Len(changeOrders) : changeOrders[j].id = CommittedId}}

\* the last save committed its order with the approvals it was given and status st
CommittedWith(st) ==
    /\ Committed # {}
    /\ \A o \in Committed : o.status = st /\ o.approvals = Submitted.approvals

\* C1: a save whose approvals hold at least one Rejected commits the order as
\* Rejected, whatever the other approvals and whatever status the form carried
C1_RejectedWins ==
    (Saved /\ HasStatus(Submitted.approvals, "Rejected")) => CommittedWith("Rejected")

\* C1: an order saved as In Progress with one Approved and one Rejected approval
C1_Witness ==
    /\ Saved
    /\ Submitted.status = "In Progress"
    /\ Len(Submitted.approvals) = 2
    /\ Submitted.approvals[1].status = "Approved"
    /\ Submitted.approvals[2].status = "Rejected"
    /\ CommittedWith("Rejected")

\* C2: a save with no Rejected approval and a form status other than In
\* Progress and Completed commits Approved when the approvals are non-empty and
\* all Approved, and Pending Approval otherwise
C2_ApprovedOrPending ==
    (Saved /\ ~HasStatus(Submitted.approvals, "Rejected") /\ ~Sticky(Submitted.status)) =>
        IF Len(Submitted.approvals) > 0 /\ AllStatus(Submitted.approvals, "Approved")
        THEN CommittedWith("Approved")
        ELSE CommittedWith("Pending Approval")

\* C2: a form status of Rejected overwritten by Approved, two approvals both Approved
C2_Witness ==
    /\ Saved
    /\ Submitted.status = "Rejected"
    /\ Len(Submitted.approvals) = 2
    /\ AllStatus(Submitted.approvals, "Approved")
    /\ CommittedWith("Approved")

\* C3, as stated: approvals that are empty or hold a Pending entry, with a form
\* status other than In Progress and Completed, commit Pending Approval
C3_PendingAsStated ==
    (/\ Saved
     /\ (Submitted.approvals = <<>> \/ HasStatus(Submitted.approvals, "Pending"))
     /\ ~Sticky(Submitted.status)) => CommittedWith("Pending Approval")

\* C3, amended: approvals that hold no Rejected entry and are empty or hold a
\* Pending entry, with a form status other than In Progress and Completed,
\* commit Pending Approval
C3_PendingWithoutRejection ==
    (/\ Saved
     /\ ~HasStatus(Submitted.approvals, "Rejected")
     /\ (Submitted.approvals = <<>> \/ HasStatus(Submitted.approvals, "Pending"))
     /\ ~Sticky(Submitted.status)) => CommittedWith("Pending Approval")

\* C3: a form status of Approved overwritten by Pending Approval, one approval
\* Approved and one Pending
C3_Witness ==
    /\ Saved
    /\ Submitted.status = "Approved"
    /\ Len(Submitted.approvals) = 2
    /\ Submitted.approvals[1].status = "Approved"
    /\ Submitted.approvals[2].status = "Pending"
    /\ CommittedWith("Pending Approval")

\* C4: a save with a form status of In Progress or Completed and no Rejected
\* approval commits the form status, for every set of approvals
C4_StickyStatusKept ==
    (Saved /\ Sticky(Submitted.status) /\ ~HasStatus(Submitted.approvals, "Rejected")) =>
        CommittedWith(Submitted.status)

\* C4: an order saved as Completed with two approvals, both Approved
C4_Witness ==
    /\ Saved
    /\ Submitted.status = "Completed"
    /\ Len(Submitted.approvals) = 2
    /\ AllStatus(Submitted.approvals, "Approved")
    /\ CommittedWith("Completed")

\* the last save took the new-order branch
Created == Saved /\ Submitted.id = 0

\* the last save took the existing-order branch
Updated == Saved /\ Submitted.id # 0

\* the positions of a collection that hold the id
PositionsOf(orders, id) == {i \in 1..Len(orders) : orders[i].id = id}

\* the collection is ordered by id, largest first
SortedByIdDesc(orders) ==
    \A i, j \in 1..Len(orders) : i < j => orders[i].id >= orders[j].id

\* C5: a save of an order with id 0 commits it exactly once, under the id
\* max(existing ids and 0) + 1, whatever creates, deletes, renumbers and imports
\* made the collection; on an empty collection that id is 1
C5_CreateAssignsNextId ==
    Created =>
        LET newId == TopId(last.before) + 1
            at == PositionsOf(changeOrders, newId)
        IN /\ Cardinality(at) = 1
           /\ \A i \in at : changeOrders[i] = [OrderToSave(Submitted) EXCEPT !.id = newId]
           /\ Len(changeOrders) = Len(last.before) + 1
           /\ 0 \notin Ids(changeOrders) \ Ids(last.before)
           /\ last.before = <<>> => Ids(changeOrders) = {1}

\* C5: a create on a collection of one order with id 2 commits the new order as 3
C5_Witness ==
    /\ Created
    /\ Len(last.before) = 1
    /\ last.before[1].id = 2
    /\ Ids(changeOrders) = {2, 3}

\* C6: after a create the whole collection is ordered by id descending, and the
\* entries it held before are all still there, each unchanged
C6_CreateSortsWhole ==
    Created =>
        /\ SortedByIdDesc(changeOrders)
        /\ Len(changeOrders) = Len(last.before) + 1
        /\ \E p \in [1..Len(last.before) -> 1..Len(changeOrders)] :
              /\ \A i, j \in 1..Len(last.before) : i # j => p[i] # p[j]
              /\ \A i \in 1..Len(last.before) : changeOrders[p[i]] = last.before[i]
              /\ \A i \in 1..Len(last.before) : changeOrders[p[i]].id # TopId(last.before) + 1

\* C6: a create on a collection of two orders held in ascending id order, as a
\* renumber leaves it, gives three orders in descending order
C6_Witness ==
    /\ Created
    /\ Len(last.before) = 2
    /\ last.before[1].id < last.before[2].id
    /\ Len(changeOrders) = 3
    /\ changeOrders[1].id > changeOrders[2].id
    /\ changeOrders[2].id > changeOrders[3].id
    /\ changeOrders[2] = last.before[2]
    /\ changeOrders[3] = last.before[1]

C8_ReplacesExactlyOne ==
    (Updated /\ Submitted.id \in Ids(last.before)) =>
        \E k \in PositionsOf(last.before, Submitted.id) :
            changeOrders = [last.before EXCEPT ![k] = OrderToSave(Submitted)]

\* C9: a save of an order whose non-zero id is held by no entry shows an error
\* and leaves the collection as it was
C9_NotFoundSurfaced ==
    (Updated /\ Submitted.id \notin Ids(last.before)) =>
        (last.alert # "" /\ changeOrders = last.before)

\* the last handler was the confirmed delete
Deleted == last.op = "delete"

\* the positions the last delete had to keep
Kept == {i \in 1..Len(last.before) : last.before[i].id \notin last.sel}

\* C10: a confirmed delete leaves exactly the entries whose id is not selected,
\* each unchanged and in the order they had; it shows no error; and the same
\* delete applied again, when none of its ids is held any more, changes nothing
C10_DeleteExactlySelected ==
    Deleted =>
        /\ Len(changeOrders) = Cardinality(Kept)
        /\ \A i \in Kept :
              changeOrders[Cardinality({j \in Kept : j <= i})] = last.before[i]
        /\ last.alert = ""
        /\ Ids(changeOrders) \cap last.sel = {}
        /\ DeleteOrders(changeOrders, last.sel) = changeOrders

\* C10: a delete of the middle one of three orders
C10_Witness ==
    /\ Deleted
    /\ Len(last.before) = 3
    /\ last.sel = {last.before[2].id}
    /\ changeOrders = <<last.before[1], last.before[3]>>

\* the last handler was a renumber of a collection that held orders
Renumbered == last.op = "renumber" /\ last.before # <<>>

\* calendar order of two dateRequested values; a value that is no date has no
\* place in it
DateNotAfter(a, b) == (~DateIsNaN(a) /\ ~DateIsNaN(b)) => GetTime(a) <= GetTime(b)

\* C11: a renumber of a non-empty collection leaves the same entries, none
\* added or lost, in ascending order of dateRequested, entries with equal dates
\* in the order they had, the entry at position k (from 1) with id k and every
\* other field as it was
C11_RenumberSortsByDate ==
    Renumbered =>
        LET n == Len(last.before)
        IN /\ Len(changeOrders) = n
           /\ \E p \in [1..n -> 1..n] :
                 /\ \A i, j \in 1..n : i # j => p[i] # p[j]
                 /\ \A k \in 1..n : changeOrders[k] = [last.before[p[k]] EXCEPT !.id = k]
                 /\ \A i, j \in 1..n :
                       i < j => /\ DateNotAfter(last.before[p[i]].dateRequested,
                                                last.before[p[j]].dateRequested)
                                /\ (last.before[p[i]].dateRequested =
                                    last.before[p[j]].dateRequested) => p[i] < p[j]

C13_IdsPositiveUnique ==
    /\ \A i \in 1..Len(changeOrders) : changeOrders[i].id > 0
    /\ \A i, j \in 1..Len(changeOrders) : i # j => changeOrders[i].id # changeOrders[j].id

\* the last handler was reader.onload
Imported == last.op = "import"

\* the file content has the shape the import is to insist on: JSON, settings an
\* object that holds an approverConfig, changeOrders a sequence
WellFormedProject(content) ==
    /\ content.parsed
    /\ content.hasSettings
    /\ "approverConfig" \in DOMAIN content.settings
    /\ content.ordersIsArray

\* C14: an import of content that is no JSON, or whose settings are missing or
\* hold no approverConfig, or whose changeOrders is no sequence, shows the error
\* and leaves collection, settings, view and selection as they were
C14_MalformedImportRejected ==
    [][(Imported' /\ ~WellFormedProject(last'.order[1])) =>
          /\ last'.alert = "Error: The selected file is not a valid project file."
          /\ UNCHANGED <<changeOrders, settings, view, selectedOrderIds>>]_vars

\* the last handler imported the file last exported
ImportedExport ==
    /\ Imported
    /\ downloads # <<>>
    /\ last.order[1] = ReadFile(downloads[1].text)

RECURSIVE SumCostAt(_, _)
SumCostAt(orders, S) ==
    IF S = {} THEN 0
    ELSE LET i == CHOOSE j \in S : TRUE
         IN TotalCost(orders[i]) + SumCostAt(orders, S \ {i})

\* the positions of the collection that the table shows
ShownPositions == {i \in 1..Len(changeOrders) : FilterMatch(changeOrders[i], filters)}

\* C16: whenever the table is shown, the total it displays is the sum of the
\* three cost fields over exactly the entries of the filtered view
C16_TotalOverFilteredView ==
    view = "table" => totalCostImpact = SumCostAt(changeOrders, ShownPositions)

\* C16: a cost filter that shows two of three orders, with the total of the
\* two (12 + 50) and not of the three
C16_Witness ==
    /\ view = "table"
    /\ Len(changeOrders) = 3
    /\ Cardinality(ShownPositions) = 2
    /\ filters.costMin # <<>>
    /\ totalCostImpact = 62
    /\ SumCostAt(changeOrders, 1..3) = 67

\* the number a filter bound holds: <<>> when the control holds none
BoundValue(s) == ParseFloat(s)

\* an entry meets every enabled criterion of the filter bar
MeetsCriteria(co, f) ==
    /\ (f.id # <<>> => Includes(IdString(co.id), f.id))
    /\ (f.title # <<>> => Includes(ToLowerCase(co.title), ToLowerCase(f.title)))
    /\ (f.status # "All" => co.status = f.status)
    /\ (f.dateRequested # "" =>
           /\ ~DateIsNaN(co.dateRequested)
           /\ GetTime(co.dateRequested) >= GetTime(f.dateRequested))
    /\ (BoundValue(f.costMin) # <<>> => TotalCost(co) >= BoundValue(f.costMin)[1])
    /\ (BoundValue(f.costMax) # <<>> => TotalCost(co) <= BoundValue(f.costMax)[1])
    /\ (BoundValue(f.scheduleMin) # <<>> => co.scheduleImpactDays >= BoundValue(f.scheduleMin)[1])
    /\ (BoundValue(f.scheduleMax) # <<>> => co.scheduleImpactDays <= BoundValue(f.scheduleMax)[1])

\* C17: the filtered view is the entries that meet every enabled criterion, in
\* collection order, each bound read as the number its control holds and
\* inclusive; with no criterion enabled it is the whole collection
C17_ViewMeetsAllCriteria ==
    /\ filteredChangeOrders(changeOrders, filters) =
           FilterIdx(changeOrders,
                     {i \in 1..Len(changeOrders) : MeetsCriteria(changeOrders[i], filters)})
    /\ filters = defaultFilters => filteredChangeOrders(changeOrders, filters) = changeOrders

\* the approvals of the included internal rows, first row first
RECURSIVE IncludedApprovals(_, _)
IncludedApprovals(rows, approverConfig) ==
    IF rows = <<>> THEN <<>>
    ELSE (IF Head(rows).included
          THEN <<[name |-> approverConfig[Head(rows).role], status |-> Head(rows).status,
                  approvalDate |-> IF Head(rows).approvalDate = "" THEN "null"
                                   ELSE Head(rows).approvalDate]>>
          ELSE <<>>)
         \o IncludedApprovals(Tail(rows), approverConfig)

\* the approvals of the third-party rows that carry a name, first row first
RECURSIVE NamedApprovals(_)
NamedApprovals(rows) ==
    IF rows = <<>> THEN <<>>
    ELSE (IF Head(rows).name # <<>>
          THEN <<[name |-> Head(rows).name, status |-> Head(rows).status,
                  approvalDate |-> IF Head(rows).approvalDate = "" THEN "null"
                                   ELSE Head(rows).approvalDate]>>
          ELSE <<>>)
         \o NamedApprovals(Tail(rows))

\* the internal rows stand in the fixed role order
InRoleOrder(rows) ==
    \A i, j \in 1..Len(rows) :
        i < j => \E m, n \in 1..Len(APPROVER_ROLES) :
                     m < n /\ APPROVER_ROLES[m] = rows[i].role /\ APPROVER_ROLES[n] = rows[j].role

\* C18: a commit with the required fields filled hands save the approvals of
\* the included internal rows, in role order, followed by the third-party rows
\* that carry a name, in row order; the other rows are dropped and the save
\* goes through
C18_CollapseAtCommit ==
    [][(view = "form" /\ RequiredFilled(formData) /\ last'.op \in {"save", "submit"})
          => /\ last'.op = "save"
             /\ view' = "table"
             /\ InRoleOrder(internalApprovers)
             /\ last'.order[1].approvals =
                    IncludedApprovals(internalApprovers, settings.approverConfig)
                        \o NamedApprovals(thirdPartyApprovers)
             /\ \E i \in 1..Len(changeOrders') :
                    /\ changeOrders'[i].id = last'.order[1].id
                    /\ changeOrders'[i].approvals = last'.order[1].approvals]_vars

\* C18: a save that handed over both configured roles, in role order, and a
\* named third-party row after them
C18_Witness ==
    /\ last.op = "save"
    /\ Len(last.order[1].approvals) = 3
    /\ last.order[1].approvals[1].name = <<"A">>
    /\ last.order[1].approvals[2].name = <<"B">>
    /\ last.order[1].approvals[3].name = <<"X">>
    /\ last.order[1].approvals[2].approvalDate = "2024-01-10"

\* no approval of a stored order and no row of the form is Pending with a date
NoPendingDate(approvals) ==
    \A i \in 1..Len(approvals) :
        approvals[i].status = "Pending" => approvals[i].approvalDate \in {"", "null"}

\* C19: in every state, every approval that is Pending has no approval date,
\* in the collection and in the internal and third-party rows of the form
C19_PendingHasNoDate ==
    /\ \A i \in 1..Len(changeOrders) : NoPendingDate(changeOrders[i].approvals)
    /\ NoPendingDate(internalApprovers)
    /\ NoPendingDate(thirdPartyApprovers)

\* no two approvals of the sequence carry the same name
DistinctNames(approvals) ==
    \A i, j \in 1..Len(approvals) : i # j => approvals[i].name # approvals[j].name

\* C20: in every state, no order of the collection has two approvals with the
\* same name
C20_ApprovalNamesUnique ==
    \A i \in 1..Len(changeOrders) : DistinctNames(changeOrders[i].approvals)

\* a text is empty or holds blanks only
Blank(text) == \A i \in 1..Len(text) : text[i] = " "

\* one of the three required texts of the order is blank
LacksRequiredText(order) ==
    Blank(order.title) \/ Blank(order.description) \/ Blank(order.reason)

\* C21: a commit attempted while title, description or reason is empty or
\* blank is blocked, the collection unchanged and the form still shown; a
\* commit that goes through carries none of them blank, and no entry of a
\* collection filled through the form has one
C21_BlankRequiredBlocksSave ==
    [][(view = "form" /\ last'.op \in {"save", "submit"})
          => /\ LacksRequiredText(formData) =>
                    /\ last'.op = "submit"
                    /\ last'.alert # ""
                    /\ changeOrders' = changeOrders
                    /\ view' = "form"
             /\ last'.op = "save" => ~LacksRequiredText(last'.order[1])
             /\ \A i \in 1..Len(changeOrders') : ~LacksRequiredText(changeOrders'[i])]_vars

\* C21: a commit was blocked on a title of one blank, the other two texts
\* filled, with an order already stored
C21_Witness ==
    /\ last.op = "submit"
    /\ view = "form"
    /\ formData.title = <<" ">>
    /\ ~Blank(formData.description)
    /\ ~Blank(formData.reason)
    /\ "title" \in errors
    /\ changeOrders = last.before
    /\ Len(changeOrders) = 1

\* none of the four numeric fields of the order is negative
NonNegative(order) ==
    /\ order.costImpactEquipment >= 0
    /\ order.costImpactInstallation >= 0
    /\ order.costImpactOther >= 0
    /\ order.scheduleImpactDays >= 0

\* C22: no commit goes through with a negative cost or schedule field, and no
\* entry of a collection filled through the form has one
C22_NegativeBlocksSave ==
    /\ last.op = "save" => NonNegative(last.order[1])
    /\ \A i \in 1..Len(changeOrders) : NonNegative(changeOrders[i])

SelectedAll == last.op = "selectAll"

\* the ids of the entries that meet the filters
FilteredIds == {changeOrders[i].id : i \in ShownPositions}

\* C23: a click on 'select all' adds the ids of the filtered entries to the
\* selection, or removes them when all of them were selected, and leaves every
\* other id in or out of the selection as it was; a delete removes only ids
\* that were selected
C23_SelectAllWithinFilter ==
    /\ SelectedAll =>
           /\ selectedOrderIds =
                  (IF FilteredIds # {} /\ FilteredIds \subseteq last.sel
                   THEN last.sel \ FilteredIds ELSE last.sel \cup FilteredIds)
           /\ \A id \in Ids(changeOrders) \ FilteredIds :
                  id \in selectedOrderIds <=> id \in last.sel
    /\ Deleted => (Ids(last.before) \ Ids(changeOrders)) \subseteq last.sel

\* C23: with a status filter hiding order 2, which was selected on its own,
\* 'select all' added the two shown orders and kept order 2 selected
C23_Witness ==
    /\ SelectedAll
    /\ filters.status = "Approved"
    /\ FilteredIds = {1, 12}
    /\ last.sel = {2}
    /\ selectedOrderIds = {1, 2, 12}

\* C23: with the same filter, 'select all' was unchecked and order 2 alone
\* stayed selected
C23_WitnessUnchecked ==
    /\ SelectedAll
    /\ filters.status = "Approved"
    /\ last.sel = {1, 2, 12}
    /\ selectedOrderIds = {2}

\* the roles whose configured name the last settings save changed from one
\* name to another
RenamedRoles ==
    IF last.op = "saveSettings" /\ last.alert = "Settings saved."
    THEN {role \in DOMAIN settings.approverConfig \cap DOMAIN last.order[1].approverConfig :
             /\ settings.approverConfig[role] # last.order[1].approverConfig[role]
             /\ Trim(settings.approverConfig[role]) # <<>>
             /\ Trim(last.order[1].approverConfig[role]) # <<>>}
    ELSE {}

\* the name the role had before the last settings save
OldName(role) == last.order[1].approverConfig[role]

\* the approval is shown as a third-party row of the form that opens
ShownAsThirdParty(approval) ==
    \E k \in 1..Len(thirdPartyApprovers') :
        /\ thirdPartyApprovers'[k].name = approval.name
        /\ thirdPartyApprovers'[k].status = approval.status
        /\ thirdPartyApprovers'[k].approvalDate =
               (IF approval.approvalDate = "null" THEN "" ELSE approval.approvalDate)

\* the role has an internal row in the form that opens, not included
ShownNotIncluded(role) ==
    \E k \in 1..Len(internalApprovers') :
        internalApprovers'[k].role = role /\ ~internalApprovers'[k].included

\* an order is opened for editing right after a settings save
EditAfterSettingsSave ==
    /\ last.op = "saveSettings"
    /\ view = "table"
    /\ view' = "form"
    /\ currentOrder' # <<>>

\* the form is committed as it was opened: every third-party row that has a
\* name is among the approvals handed to save, with its status and date
UntouchedRowsKept ==
    (view = "form" /\ last'.op = "save") =>
        \A k \in 1..Len(thirdPartyApprovers) :
            thirdPartyApprovers[k].name # <<>> =>
                \E i \in 1..Len(last'.order[1].approvals) :
                    /\ last'.order[1].approvals[i].name = thirdPartyApprovers[k].name
                    /\ last'.order[1].approvals[i].status = thirdPartyApprovers[k].status
                    /\ last'.order[1].approvals[i].approvalDate =
                           (IF thirdPartyApprovers[k].approvalDate = "" THEN "null"
                            ELSE thirdPartyApprovers[k].approvalDate)

\* C24 as stated: after a role's name is changed, every approval stored under
\* the old name is a third-party row when its order is edited next, the role
\* under its new name is a not-included internal row, and a save of the
\* untouched form keeps the approval
C24_RenameOrphansApproval ==
    [][/\ EditAfterSettingsSave =>
              \A role \in RenamedRoles :
                  /\ \A i \in 1..Len(currentOrder'[1].approvals) :
                         currentOrder'[1].approvals[i].name = OldName(role)
                             => ShownAsThirdParty(currentOrder'[1].approvals[i])
                  /\ ShownNotIncluded(role)
       /\ UntouchedRowsKept]_vars

\* C24: the same, for a rename after which no role carries the old name and
\* for an order that holds no approval under the new name
C24_RenameOrphansUnlessNameShared ==
    [][/\ EditAfterSettingsSave =>
              \A role \in RenamedRoles :
                  /\ (\A r \in DOMAIN settings.approverConfig :
                          settings.approverConfig[r] # OldName(role))
                       => \A i \in 1..Len(currentOrder'[1].approvals) :
                              currentOrder'[1].approvals[i].name = OldName(role)
                                  => ShownAsThirdParty(currentOrder'[1].approvals[i])
                  /\ (\A i \in 1..Len(currentOrder'[1].approvals) :
                          currentOrder'[1].approvals[i].name # settings.approverConfig[role])
                       => ShownNotIncluded(role)
       /\ UntouchedRowsKept]_vars

\* C24: with the first role renamed from A to C, the order was saved untouched
\* and kept the approval of A, approved on its date, while the role was not
\* among the approvals
C24_Witness ==
    /\ last.op = "save"
    /\ APPROVER_ROLES[1] \in DOMAIN settings.approverConfig
    /\ settings.approverConfig[APPROVER_ROLES[1]] = <<"C">>
    /\ \E i \in 1..Len(last.order[1].approvals) :
           last.order[1].approvals[i] =
               [name |-> <<"A">>, status |-> "Approved", approvalDate |-> "2024-01-10"]
    /\ \A i \in 1..Len(last.order[1].approvals) : last.order[1].approvals[i].name # <<"C">>

\* C25: loading the page again restores the settings that were in effect
C25_ReloadRestoresSettings ==
    last.op = "reload" => settings = last.order[1]

\* C26: while a file read is in flight no step changes the collection or the
\* settings, except the completion of the read itself
C26_NoMutationDuringRead ==
    [][pendingReads > 0 =>
          \/ UNCHANGED <<changeOrders, settings>>
          \/ last'.op = "import"]_vars

\* C27: without imports, a stored order is Rejected exactly when one of its
\* approvals is Rejected, and a stored order that is Approved has approvals,
\* all of them Approved
C27_StatusMatchesApprovals ==
    \A i \in 1..Len(changeOrders) :
        LET order == changeOrders[i]
        IN /\ order.status = "Rejected"
                  <=> \E k \in 1..Len(order.approvals) : order.approvals[k].status = "Rejected"
           /\ order.status = "Approved"
                  => /\ order.approvals # <<>>
                     /\ \A k \in 1..Len(order.approvals) : order.approvals[k].status = "Approved"

\* C27: a renumbering kept a Rejected order with its rejected approval next to
\* an Approved one
C27_Witness ==
    /\ Renumbered
    /\ Len(changeOrders) = 2
    /\ \E i, j \in 1..2 :
           /\ changeOrders[i].status = "Rejected"
           /\ changeOrders[i].approvals[1].status = "Rejected"
           /\ changeOrders[j].status = "Approved"
           /\ changeOrders[j].approvals[1].status = "Approved"

\* C28: after every step the selection holds only ids of stored orders; a
\* step that changes the collection (save, delete, renumber, import) or
\* leaves the form (save, cancel, import) empties it, and a step that adds to
\* the selection adds ids of displayed entries
C28_SelectionWithinCollection ==
    [][/\ selectedOrderIds' \subseteq Ids(changeOrders')
       /\ changeOrders' # changeOrders => selectedOrderIds' = {}
       /\ (view = "form" /\ view' = "table") => selectedOrderIds' = {}
       /\ (selectedOrderIds' \ selectedOrderIds) \subseteq
              Ids(filteredChangeOrders(changeOrders, filters))]_vars

\* C28: a renumbering that reassigned the ids found orders selected and left
\* none selected
C28_Witness ==
    /\ Renumbered
    /\ last.sel # {}
    /\ Ids(last.before) # {}
    /\ \E i \in 1..Len(changeOrders) : changeOrders[i].id # last.before[i].id
    /\ selectedOrderIds = {}

Cancelled == last.op = "cancel"

\* C29: opening an order, every edit of the form and the cancel leave the
\* collection and the settings as they are; while the form is shown the store
\* changes only at a save that goes through (or when a project file is loaded)
C29_CancelLeavesStore ==
    [][/\ (view = "form" /\ last'.op \notin {"save", "import"})
             => UNCHANGED <<changeOrders, settings>>
       /\ (view = "table" /\ view' = "form") => UNCHANGED <<changeOrders, settings>>
       /\ Cancelled' => (changeOrders' = last'.before /\ view' = "table")]_vars

\* C29: a form whose title and equipment cost had been edited was cancelled,
\* and the stored order still has the title and the cost it had
C29_Witness ==
    /\ Cancelled
    /\ last.order[1].title = <<"U">>
    /\ last.order[1].costImpactEquipment = 5
    /\ Len(changeOrders) = 1
    /\ changeOrders[1].id = last.order[1].id
    /\ changeOrders[1].title = <<"T">>
    /\ changeOrders[1].costImpactEquipment = 0
    /\ changeOrders = last.before

\* an order is opened for editing
EditOpens == view = "table" /\ view' = "form" /\ currentOrder' # <<>>

\* the approvals a commit of the form just opened would hand to save
UntouchedCollapse ==
    IncludedApprovals(internalApprovers', settings.approverConfig)
        \o NamedApprovals(thirdPartyApprovers')

\* C30: when a stored order is opened for editing, the approvals that a save
\* of the untouched form commits are the approvals the order had, with their
\* names, statuses and dates
C30_ExpandCollapseKeepsApprovals ==
    [][EditOpens => Range(UntouchedCollapse) = Range(currentOrder'[1].approvals)]_vars

====
